---- MODULE Spec2Model ----
(***************************************************************************)
(* Model of the todo backend of src/Server/index.js: the four request      *)
(* handlers (GET /get, POST /add, DELETE /delete/:id, PATCH /update/:id)   *)
(* over either the in-memory list inMemoryTodos or the MongoDB collection  *)
(* behind TodoModel (src/Server/Models/Todo.js).                           *)
(*                                                                         *)
(* Strings are sequences of one-character strings, so that trim(),         *)
(* toLowerCase() and String() are computed and not assumed.  A JSON value  *)
(* of a request body is a record tagged with its JavaScript type; a key    *)
(* that is absent from the body (undefined) is absent from the record's    *)
(* DOMAIN.                                                                 *)
(***************************************************************************)
EXTENDS Integers, Sequences, FiniteSets, TLC

VARIABLES
    useDb,          \* index.js:15   which backend start() selected
    inMemoryTodos,  \* index.js:14   the in-memory list
    dbTodos,        \* the documents of the Todo collection, in natural order
    nextOid,        \* the next ObjectId the driver generates
    clock,          \* Date.now()
    pending         \* POST /add handlers suspended between create and findById,
                    \* each holding its local object created

vars == <<useDb, inMemoryTodos, dbTodos, nextOid, clock, pending>>

(***************************************************************************)
(* Bounds of the model.                                                    *)
(***************************************************************************)
MaxTodos == 2       \* records the in-memory list may hold
MaxClock == 2       \* last clock tick
MaxOid == 2         \* ObjectIds the driver hands out
MaxPending == 1     \* POST /add handlers suspended at once

OidHexLen == 24     \* characters of an ObjectId in hexadecimal

(***************************************************************************)
(* JavaScript values and the built-ins the handlers call.                  *)
(***************************************************************************)
Str(s) == [type |-> "string", val |-> s]
Bool(b) == [type |-> "boolean", val |-> b]
Num(n) == [type |-> "number", val |-> n]
JNull == [type |-> "null"]

DigitChars == <<"0", "1", "2", "3", "4", "5", "6", "7", "8", "9">>
HexChars == DigitChars \o <<"a", "b", "c", "d", "e", "f">>

RECURSIVE NumToString(_)
\* String(n) for a non-negative integer n
NumToString(n) ==
    IF n < 10 THEN <<DigitChars[n + 1]>>
    ELSE NumToString(n \div 10) \o <<DigitChars[(n % 10) + 1]>>

\* String(v)
JsString(v) ==
    CASE v.type = "string" -> v.val
      [] v.type = "boolean" -> IF v.val THEN <<"t", "r", "u", "e">>
                                        ELSE <<"f", "a", "l", "s", "e">>
      [] v.type = "number" -> NumToString(v.val)
      [] v.type = "null" -> <<"n", "u", "l", "l">>

\* !!v
Truthy(v) ==
    CASE v.type = "string" -> Len(v.val) > 0
      [] v.type = "boolean" -> v.val
      [] v.type = "number" -> v.val # 0
      [] v.type = "null" -> FALSE

IsSpace(c) == c \in {" ", "\t"}

RECURSIVE TrimStart(_)
TrimStart(s) ==
    IF s # <<>> /\ IsSpace(Head(s)) THEN TrimStart(Tail(s)) ELSE s

RECURSIVE TrimEnd(_)
TrimEnd(s) ==
    IF s # <<>> /\ IsSpace(s[Len(s)]) THEN TrimEnd(SubSeq(s, 1, Len(s) - 1)) ELSE s

\* s.trim()
Trim(s) == TrimEnd(TrimStart(s))

LowerChar(c) ==
    CASE c = "L" -> "l" [] c = "O" -> "o" [] c = "W" -> "w"
      [] c = "M" -> "m" [] c = "E" -> "e" [] c = "D" -> "d"
      [] c = "I" -> "i" [] c = "U" -> "u" [] c = "H" -> "h"
      [] c = "G" -> "g" [] c = "R" -> "r" [] c = "N" -> "n"
      [] c = "T" -> "t"
      [] OTHER -> c

\* s.toLowerCase()
ToLowerCase(s) == [i \in 1..Len(s) |-> LowerChar(s[i])]

Low == <<"l", "o", "w">>
Medium == <<"m", "e", "d", "i", "u", "m">>
High == <<"h", "i", "g", "h">>

\* ['low','medium','high']
PRIORITIES == {Low, Medium, High}

(***************************************************************************)
(* ObjectIds: the driver's identifier type, and its cast from the string   *)
(* of a route parameter.                                                   *)
(***************************************************************************)
ObjectId(n) == [oid |-> n]

HexCharSet == {HexChars[d] : d \in 1..Len(HexChars)}

HexDigitOf == [c \in HexCharSet |-> CHOOSE d \in 0..15 : HexChars[d + 1] = c]

HexDigit(c) == HexDigitOf[c]

RECURSIVE HexValueOf(_, _)
\* the number the first k characters of s denote in hexadecimal
HexValueOf(s, k) ==
    IF k = 0 THEN 0 ELSE 16 * HexValueOf(s, k - 1) + HexDigit(s[k])

HexValue(s) == HexValueOf(s, Len(s))

RECURSIVE HexOf(_, _)
\* n in hexadecimal, padded with zeros to len characters
HexOf(n, len) ==
    IF len = 0 THEN <<>>
    ELSE HexOf(n \div 16, len - 1) \o <<HexChars[(n % 16) + 1]>>

\* String(objectId): the form a client sees and sends back
ObjectIdString(o) == HexOf(o.oid, OidHexLen)

IsHex(c) == c \in HexCharSet

\* whether the cast of a route parameter to ObjectId succeeds
Castable(id) == Len(id) = OidHexLen /\ \A i \in 1..Len(id) : IsHex(id[i])

CastObjectId(id) == ObjectId(HexValue(id))

(***************************************************************************)
(* The requests the model sends.                                           *)
(***************************************************************************)
TaskInputs == {Str(<<>>), Str(<<" ">>), Str(<<" ", "a", " ">>), JNull}

PriorityInputs ==
    {Str(<<"H", "I", "G", "H">>), Str(<<"u", "r", "g", "e", "n", "t">>), Num(1)}

CompletedInputs == {Bool(TRUE), Num(0)}

\* the ways a body can carry, or not carry, key k
Field(k, S) == {<<>>} \cup {k :> v : v \in S}

AddBodies ==
    {t @@ p : t \in Field("task", TaskInputs),
              p \in Field("priority", PriorityInputs \cup {Str(<<>>)})}

UpdateBodies ==
    {t @@ c @@ p : t \in Field("task", TaskInputs \ {Str(<<>>), JNull}),
                   c \in Field("completed", CompletedInputs),
                   p \in Field("priority", PriorityInputs)}

\* route parameters: the timestamps and the ObjectIds, in string form
IdInputs ==
    {NumToString(n) : n \in 1..MaxClock}
        \cup {ObjectIdString(ObjectId(n)) : n \in 1..MaxOid}

Result(store, status, body) == [store |-> store, status |-> status, body |-> body]

ErrorBody(msg) == [error |-> msg]

\* the collection the selected backend holds
Store == IF useDb THEN dbTodos ELSE inMemoryTodos

(***************************************************************************)
(* POST /add                                                               *)
(***************************************************************************)
\* index.js:50   !task || !String(task).trim()
TaskRejected(body) ==
    \/ "task" \notin DOMAIN body
    \/ ~Truthy(body.task)
    \/ Trim(JsString(body.task)) = <<>>

\* index.js:52-53
NormalizePriority(body) ==
    IF "priority" \notin DOMAIN body THEN Medium
    ELSE LET incoming == ToLowerCase(JsString(body.priority))
         IN  IF incoming # <<>> /\ incoming \in PRIORITIES THEN incoming ELSE Medium

\* index.js:62
NewTodo(body, now) ==
    [_id |-> NumToString(now),
     task |-> Trim(JsString(body.task)),
     priority |-> NormalizePriority(body)]

\* Push with unshift in the place of push
PushFront(list, t) == <<t>> \o list

\* index.js:63   inMemoryTodos.push(newTodo)
Push(list, t) == Append(list, t)

\* index.js:62-64   POST /add on the in-memory list
MemAdd(todos, now, body) ==
    IF TaskRejected(body)
    THEN Result(todos, 400, ErrorBody("task is required"))
    ELSE LET newTodo == NewTodo(body, now)
         IN  Result(Push(todos, newTodo), 200, newTodo)

\* index.js:56   TodoModel.create({ task, priority }): the schema supplies _id
\* and the default of completed (the timestamps, which no handler reads, are
\* left out)
CreateDoc(body, oid) ==
    [_id |-> ObjectId(oid),
     task |-> Trim(JsString(body.task)),
     completed |-> FALSE,
     priority |-> NormalizePriority(body)]

\* TodoModel.findById(oid): the document, or null
FindById(docs, oid) ==
    LET hits == SelectSeq(docs, LAMBDA d : d._id = oid)
    IN  IF hits = <<>> THEN JNull ELSE hits[1]

\* AddResponse without the fallback to the local object
AddResponseFetchedOnly(fetched, created) == fetched

\* index.js:59-60
AddResponse(fetched, created) == IF fetched # JNull THEN fetched ELSE created

\* index.js:57-60   the response of a suspended POST /add when it resumes
DbAddRefetch(docs, created) ==
    Result(docs, 200, AddResponse(FindById(docs, created._id), created))

Add(body) ==
    IF TaskRejected(body)
    THEN UNCHANGED vars
    ELSE IF useDb
    THEN \* create, then suspend until findById is issued
         /\ nextOid <= MaxOid
         /\ Cardinality(pending) < MaxPending
         /\ LET created == CreateDoc(body, nextOid)
            IN  /\ dbTodos' = Append(dbTodos, created)
                /\ pending' = pending \cup {created}
         /\ nextOid' = nextOid + 1
         /\ UNCHANGED <<useDb, inMemoryTodos, clock>>
    ELSE /\ Len(inMemoryTodos) < MaxTodos
         /\ inMemoryTodos' = MemAdd(inMemoryTodos, clock, body).store
         /\ UNCHANGED <<useDb, dbTodos, nextOid, clock, pending>>

AddRefetch(created) ==
    /\ created \in pending
    /\ dbTodos' = DbAddRefetch(dbTodos, created).store
    /\ pending' = pending \ {created}
    /\ UNCHANGED <<useDb, inMemoryTodos, nextOid, clock>>

(***************************************************************************)
(* GET /get                                                                *)
(***************************************************************************)
\* index.js:35-39
GetOn(store) == Result(store, 200, store)

\* the selected backend's collection becomes store
SetStore(store) ==
    IF useDb THEN dbTodos' = store /\ UNCHANGED inMemoryTodos
    ELSE inMemoryTodos' = store /\ UNCHANGED dbTodos

Get ==
    /\ SetStore(GetOn(Store).store)
    /\ UNCHANGED <<useDb, nextOid, clock, pending>>

(***************************************************************************)
(* DELETE /delete/:id                                                      *)
(***************************************************************************)
\* index.js:82   t._id !== id && String(t._id) !== String(id)
KeepOnDelete(t, id) == t._id # id /\ JsString(Str(t._id)) # JsString(Str(id))

\* index.js:77-79   findByIdAndDelete rejects with a CastError when the id
\* cannot be cast, which the catch block answers (index.js:85-87)
DbDelete(docs, id) ==
    IF ~Castable(id)
    THEN Result(docs, 500, ErrorBody("Internal Server Error"))
    ELSE LET removed == FindById(docs, CastObjectId(id))
         IN  IF removed = JNull
             THEN Result(docs, 404, ErrorBody("Not found"))
             ELSE Result(SelectSeq(docs, LAMBDA d : d._id # removed._id),
                         200, [success |-> TRUE])

\* MemDelete without the comparison of the lengths: success in every case
MemDeleteAlwaysSuccess(todos, id) ==
    Result(SelectSeq(todos, LAMBDA t : KeepOnDelete(t, id)), 200, [success |-> TRUE])

\* index.js:81-84
MemDelete(todos, id) ==
    LET before == Len(todos)
        after == SelectSeq(todos, LAMBDA t : KeepOnDelete(t, id))
    IN  IF Len(after) = before
        THEN Result(after, 404, ErrorBody("Not found"))
        ELSE Result(after, 200, [success |-> TRUE])

\* index.js:72-89
DeleteOn(db, store, id) ==
    IF id = <<>> THEN Result(store, 400, ErrorBody("id required"))
    ELSE IF db THEN DbDelete(store, id)
    ELSE MemDelete(store, id)

Delete(id) ==
    /\ SetStore(DeleteOn(useDb, Store, id).store)
    /\ UNCHANGED <<useDb, nextOid, clock, pending>>

(***************************************************************************)
(* PATCH /update/:id                                                       *)
(***************************************************************************)
\* index.js:96
UpdateTask(body) ==
    IF "task" \in DOMAIN body THEN "task" :> Trim(JsString(body.task)) ELSE <<>>

\* index.js:97
UpdateCompleted(body) ==
    IF "completed" \in DOMAIN body THEN "completed" :> Truthy(body.completed) ELSE <<>>

\* UpdatePriority with the fallback of POST /add in the place of the drop
UpdatePriorityDefaulting(body) ==
    IF "priority" \in DOMAIN body
    THEN LET p == ToLowerCase(JsString(body.priority))
         IN  "priority" :> (IF p \in PRIORITIES THEN p ELSE Medium)
    ELSE <<>>

\* UpdatePriority without the check against the enum
UpdatePriorityUnchecked(body) ==
    IF "priority" \in DOMAIN body
    THEN "priority" :> ToLowerCase(JsString(body.priority))
    ELSE <<>>

\* index.js:98-101
UpdatePriority(body) ==
    IF "priority" \in DOMAIN body
    THEN LET p == ToLowerCase(JsString(body.priority))
         IN  IF p \in PRIORITIES THEN "priority" :> p ELSE <<>>
    ELSE <<>>

\* index.js:95-101   the object update
BuildUpdate(body) == UpdateTask(body) @@ UpdateCompleted(body) @@ UpdatePriority(body)

\* Object.assign({}, t, update), and the $set of findByIdAndUpdate
Assign(t, update) == update @@ t

\* index.js:113   String(t._id) === String(id)
Matches(t, id) == JsString(Str(t._id)) = JsString(Str(id))

\* index.js:106-108   findByIdAndUpdate(id, update, { new: true }) rejects with
\* a CastError when the id cannot be cast (index.js:122-124); it runs no
\* validators
DbUpdate(docs, id, update) ==
    IF ~Castable(id)
    THEN Result(docs, 500, ErrorBody("Internal Server Error"))
    ELSE LET oid == CastObjectId(id)
             updated == [i \in 1..Len(docs) |->
                            IF docs[i]._id = oid THEN Assign(docs[i], update)
                            ELSE docs[i]]
         IN  IF FindById(docs, oid) = JNull
             THEN Result(docs, 404, ErrorBody("Not found"))
             ELSE Result(updated, 200, FindById(updated, oid))

\* index.js:111-121
MemUpdate(todos, id, update) ==
    LET mapped == [i \in 1..Len(todos) |->
                      IF Matches(todos[i], id) THEN Assign(todos[i], update)
                      ELSE todos[i]]
        found == \E i \in 1..Len(todos) : Matches(todos[i], id)
    IN  IF ~found
        THEN Result(mapped, 404, ErrorBody("Not found"))
        ELSE Result(mapped, 200, SelectSeq(mapped, LAMBDA t : Matches(t, id))[1])

\* index.js:92-126
UpdateOn(db, store, id, body) ==
    LET update == BuildUpdate(body)
    IN  IF DOMAIN update = {}
        THEN Result(store, 400, ErrorBody("nothing to update"))
        ELSE IF db THEN DbUpdate(store, id, update)
        ELSE MemUpdate(store, id, update)

Update(id, body) ==
    /\ SetStore(UpdateOn(useDb, Store, id, body).store)
    /\ UNCHANGED <<useDb, nextOid, clock, pending>>

(***************************************************************************)
(* The clock, and the system.                                              *)
(***************************************************************************)
\* Date.now() advances between two requests, or does not
Tick ==
    /\ clock < MaxClock
    /\ clock' = clock + 1
    /\ UNCHANGED <<useDb, inMemoryTodos, dbTodos, nextOid, pending>>

\* index.js:14-30
Init ==
    /\ useDb \in BOOLEAN
    /\ inMemoryTodos = <<>>
    /\ dbTodos = <<>>
    /\ nextOid = 1
    /\ clock = 1
    /\ pending = {}

AddStep == \E body \in AddBodies : Add(body)
AddRefetchStep == \E created \in pending : AddRefetch(created)
DeleteStep == \E id \in IdInputs : Delete(id)
UpdateStep == \E id \in IdInputs, body \in UpdateBodies : Update(id, body)

Next ==
    \/ AddStep
    \/ AddRefetchStep
    \/ Get
    \/ DeleteStep
    \/ UpdateStep
    \/ Tick

Spec == Init /\ [][Next]_vars

(***************************************************************************)
(* Vocabulary of the properties.                                           *)
(***************************************************************************)
\* the id of a stored record in the string form a client holds
IdString(t) == IF useDb THEN ObjectIdString(t._id) ELSE t._id

\* the ids of the records of a store, in string form
Ids(store) == {IdString(store[i]) : i \in 1..Len(store)}

Present(store, id) == id \in Ids(store)

\* the body carries a priority whose string form is none of low, medium, high
\* in any case
InvalidPriority(body) ==
    /\ "priority" \in DOMAIN body
    /\ ToLowerCase(JsString(body.priority)) \notin PRIORITIES

\* the Update bodies that carry such a priority
InvalidPriorityBodies == {body \in UpdateBodies : InvalidPriority(body)}

\* the body carries task or completed
OtherField(body) == "task" \in DOMAIN body \/ "completed" \in DOMAIN body

\* the priority Create is to store for a body
ExpectedPriority(body) ==
    IF "priority" \in DOMAIN body /\ body.priority.type = "string"
          /\ ToLowerCase(body.priority.val) \in PRIORITIES
    THEN ToLowerCase(body.priority.val)
    ELSE Medium

\* the record POST /add creates in this state, on either backend
Created(body) ==
    IF useDb THEN CreateDoc(body, nextOid) ELSE MemAdd(inMemoryTodos, clock, body).body

(***************************************************************************)
(* C1.  On the in-memory backend no two records of the store have the same *)
(* id, also when two Creates are handled within one clock tick.            *)
(***************************************************************************)
C1_UniqueIds ==
    ~useDb =>
        \A i, j \in 1..Len(inMemoryTodos) :
            i # j => inMemoryTodos[i]._id # inMemoryTodos[j]._id

(***************************************************************************)
(* C2.  Every record of the store has a task that is non-empty after       *)
(* trimming, whatever Creates and Updates were handled.                    *)
(***************************************************************************)
C2_TaskNeverBlank == \A i \in 1..Len(Store) : Trim(Store[i].task) # <<>>

(***************************************************************************)
(* C3.  On either backend a Create with a non-blank task yields a record   *)
(* with a non-empty id, completed = false, and the priority lowercased     *)
(* when it is one of low/medium/high and 'medium' otherwise, and the store *)
(* holds that record afterwards.                                           *)
(***************************************************************************)
C3_CreateDefaults ==
    [][\A body \in AddBodies :
          (~TaskRejected(body) /\ Add(body)) =>
              LET t == Created(body)
              IN  /\ IdString(t) # <<>>
                  /\ "completed" \in DOMAIN t
                  /\ t.completed = FALSE
                  /\ t.priority = ExpectedPriority(body)
                  /\ Store' = Store \o <<t>>]_vars

C5_DeleteThenNotFound ==
    \A id \in IdInputs \cap Ids(Store) :
        LET first == DeleteOn(useDb, Store, id)
            second == DeleteOn(useDb, first.store, id)
        IN  /\ first.status = 200
            /\ first.body = [success |-> TRUE]
            /\ ~Present(first.store, id)
            /\ Len(first.store) < Len(Store)
            /\ second.status = 404
            /\ second.store = first.store

\* an ObjectId that was handed out is gone from the collection, no Create is
\* suspended, and a Delete of it is answered 404
C5_Witness ==
    /\ useDb
    /\ pending = {}
    /\ \E n \in 1..MaxOid :
          /\ n < nextOid
          /\ ~Present(dbTodos, ObjectIdString(ObjectId(n)))
          /\ DeleteOn(useDb, dbTodos, ObjectIdString(ObjectId(n))).status = 404

(***************************************************************************)
(* C6.  For every id that is not present in the store, whatever its form,  *)
(* Delete and an Update that names a recognized field answer 404, never    *)
(* 500.                                                                    *)
(***************************************************************************)
C6_AbsentIdIs404 ==
    \A id \in IdInputs \ Ids(Store) :
        /\ DeleteOn(useDb, Store, id).status = 404
        /\ \A body \in UpdateBodies :
              DOMAIN BuildUpdate(body) # {} =>
                  UpdateOn(useDb, Store, id, body).status = 404

(***************************************************************************)
(* C7.  Every record of the store, and every record a suspended Create     *)
(* holds, has a priority that is one of 'low', 'medium', 'high'.           *)
(***************************************************************************)
C7_PriorityInEnum ==
    /\ \A i \in 1..Len(Store) : Store[i].priority \in PRIORITIES
    /\ \A created \in pending : created.priority \in PRIORITIES

\* the store holds a record whose priority was lowercased to high and one
\* that kept the default
C7_Witness ==
    /\ \E i \in 1..Len(Store) : Store[i].priority = High
    /\ \E i \in 1..Len(Store) : Store[i].priority = Medium

\* what one step may do to the in-memory list
ListStep ==
    \/ inMemoryTodos' = inMemoryTodos
    \/ /\ Len(inMemoryTodos') = Len(inMemoryTodos) + 1
       /\ \E body \in AddBodies :
             LET r == MemAdd(inMemoryTodos, clock, body)
             IN  r.status = 200 /\ inMemoryTodos' = inMemoryTodos \o <<r.body>>
    \/ /\ Len(inMemoryTodos') < Len(inMemoryTodos)
       /\ \E id \in {inMemoryTodos[i]._id : i \in 1..Len(inMemoryTodos)} :
             inMemoryTodos' = SelectSeq(inMemoryTodos, LAMBDA t : t._id # id)
    \/ /\ Len(inMemoryTodos') = Len(inMemoryTodos)
       /\ \A i \in 1..Len(inMemoryTodos) : inMemoryTodos'[i]._id = inMemoryTodos[i]._id

C9_CreateAnswersItsRecord ==
    \A created \in pending :
        LET r == DbAddRefetch(dbTodos, created)
            stored == {i \in 1..Len(dbTodos) : dbTodos[i]._id = created._id}
        IN  /\ r.status = 200
            /\ r.store = dbTodos
            /\ r.body # JNull
            /\ r.body._id = created._id
            /\ \A i \in stored : r.body = dbTodos[i]
            /\ stored = {} => r.body = created

\* a suspended Create whose record a Delete has removed meanwhile
C9_Witness ==
    \E created \in pending :
        /\ \A i \in 1..Len(dbTodos) : dbTodos[i]._id # created._id
        /\ DbAddRefetch(dbTodos, created).body = created

\* record t with the recognized fields of the body applied
Expected(t, body) ==
    [k \in DOMAIN t \cup (DOMAIN body \ (IF InvalidPriority(body) THEN {"priority"} ELSE {})) |->
        CASE k = "task" /\ k \in DOMAIN body -> Trim(JsString(body.task))
          [] k = "completed" /\ k \in DOMAIN body -> Truthy(body.completed)
          [] k = "priority" /\ k \in DOMAIN body /\ ~InvalidPriority(body) ->
                ToLowerCase(JsString(body.priority))
          [] OTHER -> t[k]]

(***************************************************************************)
(* C10.  On the in-memory backend an Update answered 200 changes only the  *)
(* recognized fields of the request, in the one record whose id matches,   *)
(* answers that record, and leaves every other record and the number of    *)
(* records unchanged; an Update answered 400 or 404 leaves the store       *)
(* unchanged.                                                              *)
(***************************************************************************)
C10_UpdateFrame ==
    ~useDb =>
        \A id \in IdInputs, body \in UpdateBodies :
            LET r == UpdateOn(useDb, inMemoryTodos, id, body)
            IN  IF r.status = 200
                THEN /\ Len(r.store) = Len(inMemoryTodos)
                     /\ \E k \in 1..Len(inMemoryTodos) :
                           /\ inMemoryTodos[k]._id = id
                           /\ r.store[k] = Expected(inMemoryTodos[k], body)
                           /\ r.body = r.store[k]
                           /\ \A j \in 1..Len(inMemoryTodos) :
                                 j # k => r.store[j] = inMemoryTodos[j]
                ELSE r.store = inMemoryTodos

====
